---- MODULE Spec2Model ----
(***************************************************************************)
(* A model of JwkClient (src/src/lib.rs): the public-key cache, its two    *)
(* timestamps and the refresh / retry orchestration of validate_token.     *)
(*                                                                         *)
(* Option<T> is modelled as a set with at most one element: {} is None and *)
(* {x} is Some(x).  Time is a natural number of clock ticks; Utc::now() is *)
(* the variable now, which only the Tick action advances.                  *)
(***************************************************************************)
EXTENDS Integers, Sequences, FiniteSets

\* ------------------------------------------------------------------ bounds
MaxTime == 3            \* the clock runs from 0 to MaxTime
MaxDuration == 1        \* the setters are called with durations 0..MaxDuration
MaxKeys == 2            \* a fetched key-set document holds at most MaxKeys keys
NbfTime == 2            \* the nbf instant a published key may carry

\* ------------------------------------------------------- program constants
DefaultAutoRefreshInterval == 60    \* Duration::hours(1), in minutes
DefaultRetryRateLimit == 5          \* Duration::minutes(5), in minutes

\* ------------------------------------------------------------------ inputs
KeyIds == {"k1", "k2"}
Durations == 0..MaxDuration

\* the fixed identity of the client (JwkClient::new arguments)
issuer == "https://idp.example"
audience == "my-service"

\* JwkRaw: the records a fetched document may hold.  Material "A" constructs
\* to an RSA key, "bad" makes RS256PublicKey::from_components fail.
JwkRaw ==
    {[key_id |-> "k1", not_before |-> {}, material |-> "A"],
     [key_id |-> "k1", not_before |-> {NbfTime}, material |-> "A"],
     [key_id |-> "k2", not_before |-> {}, material |-> "A"],
     [key_id |-> "k2", not_before |-> {}, material |-> "bad"]}

RECURSIVE SeqsUpTo(_, _)
SeqsUpTo(S, n) ==
    IF n = 0 THEN {<<>>}
    ELSE LET shorter == SeqsUpTo(S, n - 1)
         IN  shorter \cup {Append(s, x) : s \in {t \in shorter : Len(t) = n - 1}, x \in S}

\* what reqwest::get(..).await?.json::<JwkRawArray>().await? can produce
Responses ==
    {[status |-> "connect_error", keys |-> <<>>],
     [status |-> "json_error", keys |-> <<>>]}
    \cup {[status |-> "ok", keys |-> ks] : ks \in SeqsUpTo(JwkRaw, MaxKeys)}

\* a token as the collaborators see it: whether its header decodes, its kid,
\* the key that signed it ("A" or "B") and its iss / aud claims
Tokens ==
    {[decodable |-> FALSE, kid |-> {}, signer |-> "A", iss |-> issuer, aud |-> audience],
     [decodable |-> TRUE, kid |-> {}, signer |-> "A", iss |-> issuer, aud |-> audience],
     [decodable |-> TRUE, kid |-> {"k2"}, signer |-> "A", iss |-> issuer, aud |-> audience]}
    \cup {[decodable |-> TRUE, kid |-> {"k1"}, signer |-> c[1], iss |-> c[2], aud |-> c[3]] :
            c \in {<<"A", issuer, audience>>, <<"B", issuer, audience>>,
                   <<"A", "https://evil.example", audience>>,
                   <<"A", issuer, "other-service">>}}

NoToken == [decodable |-> FALSE, kid |-> {}, signer |-> "A", iss |-> "", aud |-> ""]

\* ----------------------------------------------------------------- results
Ok(tok) == [ok |-> TRUE, kind |-> "Claims", detail |-> "", claims |-> {<<tok.iss, tok.aud>>}]
Err(kind, detail) == [ok |-> FALSE, kind |-> kind, detail |-> detail, claims |-> {}]
Pending == [ok |-> FALSE, kind |-> "Pending", detail |-> "", claims |-> {}]
Refreshed == [ok |-> TRUE, kind |-> "Refreshed", detail |-> "", claims |-> {}]
Unit == [ok |-> TRUE, kind |-> "Unit", detail |-> "", claims |-> {}]

MissingKid == Err("Other", "token is missing public key id kid")
KidNotFound == Err("Other", "public key id kid of token not found")

VARIABLES
    now,                    \* Utc::now()
    public_keys,            \* JwkClient.public_keys: kid -> PublicKey
    auto_refresh_interval,  \* JwkClient.auto_refresh_interval
    retry_rate_limit,       \* JwkClient.retry_rate_limit
    last_refresh,           \* JwkClient.last_refresh (Option)
    last_retry,             \* JwkClient.last_retry (Option)
    pc,                     \* where the validate_token call in progress stands
    token,                  \* the argument of the call in progress
    result,                 \* what the latest operation returned, if it was validate_token
    events,                 \* what the latest operation did, in order:
                            \*   [op |-> "refresh" or "attempt", res |-> its result]
                            \*   for validate_token, [op |-> its name, res |-> Unit]
                            \*   for a setter
    reactive_at,            \* when refresh_public_keys was last invoked at line 146 (Option)
    stale_at_call,          \* what keys_are_stale() answered when the latest call began
    ever_refreshed,         \* whether any refresh_public_keys has returned Ok
    fetched,                \* the key set of the latest document a refresh accepted
    call_phase              \* "new" until validate_token is first called, "first"
                            \* while that first call runs, "later" once it returned

vars == <<now, public_keys, auto_refresh_interval, retry_rate_limit, last_refresh,
          last_retry, pc, token, result, events, reactive_at, stale_at_call, ever_refreshed,
          fetched, call_phase>>

client == <<public_keys, auto_refresh_interval, retry_rate_limit, last_refresh, last_retry>>

\* ------------------------------------------------------------- PublicKey
\* mutant: a key only becomes valid after its not_before instant
is_valid_Strict(pk, t) == \A nbf \in pk.not_before : nbf < t

is_valid(pk, t) == \A nbf \in pk.not_before : nbf <= t

valid_key(pk, t) == IF is_valid(pk, t) THEN {pk.key} ELSE {}

\* ------------------------------------------------------------- JwkClient
\* mutant: unwrap_or(false), keys that were never fetched count as fresh
keys_are_stale_NoneIsFresh(lr, t, interval) == lr # {} /\ \A r \in lr : t - r > interval

\* mutant: keys count as stale as soon as their age reaches the interval
keys_are_stale_Inclusive(lr, t, interval) == \A r \in lr : t - r >= interval

keys_are_stale(lr, t, interval) == \A r \in lr : t - r > interval

\* mutant: unwrap_or(false), no retry until one has been recorded
can_retry_on_failure_NoneIsNo(lt, t, limit) == lt # {} /\ \A r \in lt : t - r > limit

can_retry_on_failure(lt, t, limit) == \A r \in lt : t - r > limit

\* mutant: the lookup returns the entry without asking whether it is active
get_valid_key_IgnoreNbf(keys, key_id, t) ==
    IF key_id \in DOMAIN keys THEN {keys[key_id].key} ELSE {}

get_valid_key(keys, key_id, t) ==
    IF key_id \in DOMAIN keys THEN valid_key(keys[key_id], t) ELSE {}

\* the iterator of refresh_public_keys collected into Result<HashMap, _>:
\* the first key that fails to construct fails the whole collection,
\* otherwise a later record with the same kid replaces an earlier one
CollectKeys(raw) ==
    IF \E i \in 1..Len(raw) : raw[i].material = "bad"
    THEN [res |-> Err("ParseError", "invalid key"), map |-> <<>>]
    ELSE [res |-> Refreshed,
          map |-> [k \in {raw[i].key_id : i \in 1..Len(raw)} |->
                     LET last == CHOOSE i \in 1..Len(raw) :
                                   /\ raw[i].key_id = k
                                   /\ \A j \in (i + 1)..Len(raw) : raw[j].key_id # k
                     IN  [key |-> raw[last].material, not_before |-> raw[last].not_before]]]

\* the key set a document publishes: its records, a later record superseding
\* an earlier one with the same kid (the keys of a HashMap are unique)
KeySetOf(raw) ==
    {raw[i] : i \in {j \in 1..Len(raw) : \A l \in (j + 1)..Len(raw) : raw[l].key_id # raw[j].key_id}}

\* the value refresh_public_keys computes before it touches self (lines 108-121)
FetchKeys(resp) ==
    IF resp.status # "ok"
    THEN [res |-> Err("ConnectionError", resp.status), map |-> <<>>]
    ELSE CollectKeys(resp.keys)

\* RS256PublicKey::verify_token with allowed_issuers / allowed_audiences
verify_token(key, tok, allowed_issuers, allowed_audiences) ==
    IF tok.signer # key THEN Err("ParseError", "invalid signature")
    ELSE IF tok.iss \notin allowed_issuers THEN Err("ParseError", "required issuer mismatch")
    ELSE IF tok.aud \notin allowed_audiences THEN Err("ParseError", "required audience mismatch")
    ELSE Ok(tok)

validate_token_impl(keys, tok, t) ==
    IF ~tok.decodable THEN Err("ParseError", "invalid token")
    ELSE IF tok.kid = {} THEN MissingKid
    ELSE LET key_id == CHOOSE k \in tok.kid : TRUE
             key == get_valid_key(keys, key_id, t)
         IN  IF key = {} THEN KidNotFound
             ELSE verify_token(CHOOSE k \in key : TRUE, tok, {issuer}, {audience})

\* ------------------------------------------------------------------- Init
Init ==
    /\ now = 0
    /\ public_keys = <<>>
    /\ auto_refresh_interval = DefaultAutoRefreshInterval
    /\ retry_rate_limit = DefaultRetryRateLimit
    /\ last_refresh = {}
    /\ last_retry = {}
    /\ pc = "idle"
    /\ token = NoToken
    /\ result = Pending
    /\ events = <<>>
    /\ reactive_at = {}
    /\ stale_at_call = FALSE
    /\ ever_refreshed = FALSE
    /\ fetched = {}
    /\ call_phase = "new"

\* ---------------------------------------------------------------- actions
Tick ==
    /\ now < MaxTime
    /\ now' = now + 1
    /\ UNCHANGED <<client, pc, token, result, events, reactive_at, stale_at_call,
                   ever_refreshed, fetched, call_phase>>

\* mutant: the setter writes the other tunable
set_auto_refresh_interval_WrongField(duration) ==
    /\ pc = "idle"
    /\ retry_rate_limit' = duration
    /\ result' = Pending
    /\ events' = <<[op |-> "set_auto_refresh_interval", res |-> Unit]>>
    /\ stale_at_call' = FALSE
    /\ UNCHANGED <<now, public_keys, auto_refresh_interval, last_refresh, last_retry,
                   pc, token, reactive_at, ever_refreshed, fetched, call_phase>>

set_auto_refresh_interval(duration) ==
    /\ pc = "idle"
    /\ auto_refresh_interval' = duration
    /\ result' = Pending
    /\ events' = <<[op |-> "set_auto_refresh_interval", res |-> Unit]>>
    /\ stale_at_call' = FALSE
    /\ UNCHANGED <<now, public_keys, retry_rate_limit, last_refresh, last_retry,
                   pc, token, reactive_at, ever_refreshed, fetched, call_phase>>

set_retry_rate_limit(duration) ==
    /\ pc = "idle"
    /\ retry_rate_limit' = duration
    /\ result' = Pending
    /\ events' = <<[op |-> "set_retry_rate_limit", res |-> Unit]>>
    /\ stale_at_call' = FALSE
    /\ UNCHANGED <<now, public_keys, auto_refresh_interval, last_refresh, last_retry,
                   pc, token, reactive_at, ever_refreshed, fetched, call_phase>>

\* validate_token is entered: the staleness test of line 139
Call(tok) ==
    /\ pc = "idle"
    /\ token' = tok
    /\ result' = Pending
    /\ events' = <<>>
    /\ stale_at_call' = keys_are_stale(last_refresh, now, auto_refresh_interval)
    /\ pc' = IF stale_at_call' THEN "proactive" ELSE "first"
    /\ call_phase' = IF call_phase = "new" THEN "first" ELSE call_phase
    /\ UNCHANGED <<now, client, reactive_at, ever_refreshed, fetched>>

\* the positions of the verification attempts in an event log
AttemptsOf(ev) == {i \in DOMAIN ev : ev[i].op = "attempt"}

\* the return of validate_token
Return(r) ==
    /\ result' = r
    /\ pc' = "idle"
    /\ token' = NoToken
    /\ call_phase' = "later"

\* mutant: the timestamp is written before the key map is known to be good
refresh_public_keys_Partial(resp) ==
    LET got == FetchKeys(resp)
    IN  /\ events' = Append(events, [op |-> "refresh", res |-> got.res])
        /\ last_refresh' = {now}
        /\ IF got.res.ok
           THEN /\ public_keys' = got.map
                /\ ever_refreshed' = TRUE
                /\ fetched' = KeySetOf(resp.keys)
           ELSE UNCHANGED <<public_keys, ever_refreshed, fetched>>

\* mutant: the fetched keys are inserted into the existing map (extend)
refresh_public_keys_Merge(resp) ==
    LET got == FetchKeys(resp)
    IN  /\ events' = Append(events, [op |-> "refresh", res |-> got.res])
        /\ IF got.res.ok
           THEN /\ public_keys' = [k \in DOMAIN got.map \cup DOMAIN public_keys |->
                                     IF k \in DOMAIN got.map THEN got.map[k]
                                     ELSE public_keys[k]]
                /\ last_refresh' = {now}
                /\ ever_refreshed' = TRUE
                /\ fetched' = KeySetOf(resp.keys)
           ELSE UNCHANGED <<public_keys, last_refresh, ever_refreshed, fetched>>

\* mutant: the new key map is stored without the time of the refresh
refresh_public_keys_NoStamp(resp) ==
    LET got == FetchKeys(resp)
    IN  /\ events' = Append(events, [op |-> "refresh", res |-> got.res])
        /\ IF got.res.ok
           THEN /\ public_keys' = got.map
                /\ ever_refreshed' = TRUE
                /\ fetched' = KeySetOf(resp.keys)
                /\ UNCHANGED last_refresh
           ELSE UNCHANGED <<public_keys, last_refresh, ever_refreshed, fetched>>

\* refresh_public_keys: the cache is written (lines 123-124) only when the
\* key map was built; otherwise the ? operators return the error first
refresh_public_keys(resp) ==
    LET got == FetchKeys(resp)
    IN  /\ events' = Append(events, [op |-> "refresh", res |-> got.res])
        /\ IF got.res.ok
           THEN /\ public_keys' = got.map
                /\ last_refresh' = {now}
                /\ ever_refreshed' = TRUE
                /\ fetched' = KeySetOf(resp.keys)
           ELSE UNCHANGED <<public_keys, last_refresh, ever_refreshed, fetched>>

\* mutant: the proactive refresh stamps the retry clock as well
ProactiveRefresh_SharedClock(resp) ==
    /\ pc = "proactive"
    /\ refresh_public_keys(resp)
    /\ IF FetchKeys(resp).res.ok
       THEN /\ pc' = "first"
            /\ last_retry' = {now}
            /\ UNCHANGED <<token, result, call_phase>>
       ELSE /\ Return(FetchKeys(resp).res)
            /\ UNCHANGED last_retry
    /\ UNCHANGED <<now, auto_refresh_interval, retry_rate_limit, reactive_at, stale_at_call>>

\* mutant: a failed proactive refresh falls back to the keys already cached
ProactiveRefresh_Fallback(resp) ==
    /\ pc = "proactive"
    /\ refresh_public_keys(resp)
    /\ pc' = "first"
    /\ UNCHANGED <<token, result, call_phase>>
    /\ UNCHANGED <<now, auto_refresh_interval, retry_rate_limit, last_retry, reactive_at,
                   stale_at_call>>

\* line 140: self.refresh_public_keys().await?
ProactiveRefresh(resp) ==
    /\ pc = "proactive"
    /\ refresh_public_keys(resp)
    /\ IF FetchKeys(resp).res.ok
       THEN /\ pc' = "first"
            /\ UNCHANGED <<token, result, call_phase>>
       ELSE Return(FetchKeys(resp).res)
    /\ UNCHANGED <<now, auto_refresh_interval, retry_rate_limit, last_retry, reactive_at,
                   stale_at_call>>

\* mutant: every first attempt stamps the retry clock
FirstAttempt_Touch ==
    /\ pc = "first"
    /\ LET r == validate_token_impl(public_keys, token, now)
       IN  /\ events' = Append(events, [op |-> "attempt", res |-> r])
           /\ IF ~r.ok /\ can_retry_on_failure(last_retry, now, retry_rate_limit)
              THEN /\ pc' = "reactive"
                   /\ UNCHANGED <<token, result, call_phase>>
              ELSE Return(r)
    /\ last_retry' = {now}
    /\ UNCHANGED <<now, public_keys, auto_refresh_interval, retry_rate_limit, last_refresh,
                   reactive_at, stale_at_call, ever_refreshed, fetched>>

\* lines 143-152: the first attempt and the retry decision
FirstAttempt ==
    /\ pc = "first"
    /\ LET r == validate_token_impl(public_keys, token, now)
       IN  /\ events' = Append(events, [op |-> "attempt", res |-> r])
           /\ IF ~r.ok /\ can_retry_on_failure(last_retry, now, retry_rate_limit)
              THEN /\ pc' = "reactive"
                   /\ UNCHANGED <<token, result, call_phase>>
              ELSE Return(r)
    /\ UNCHANGED <<now, client, reactive_at, stale_at_call, ever_refreshed, fetched>>

\* mutant: a failed reactive refresh is swallowed and the first attempt's
\* failure is returned
ReactiveRefresh_SwallowError(resp) ==
    /\ pc = "reactive"
    /\ refresh_public_keys(resp)
    /\ reactive_at' = {now}
    /\ IF FetchKeys(resp).res.ok
       THEN /\ pc' = "record"
            /\ UNCHANGED <<token, result, call_phase>>
       ELSE Return(events[Len(events)].res)
    /\ UNCHANGED <<now, auto_refresh_interval, retry_rate_limit, last_retry, stale_at_call>>

\* mutant: the retry clock is stamped before the outcome of the fetch is known
ReactiveRefresh_RecordFirst(resp) ==
    /\ pc = "reactive"
    /\ refresh_public_keys(resp)
    /\ reactive_at' = {now}
    /\ last_retry' = {now}
    /\ IF FetchKeys(resp).res.ok
       THEN /\ pc' = "record"
            /\ UNCHANGED <<token, result, call_phase>>
       ELSE Return(FetchKeys(resp).res)
    /\ UNCHANGED <<now, auto_refresh_interval, retry_rate_limit, stale_at_call>>

\* line 146: self.refresh_public_keys().await?
ReactiveRefresh(resp) ==
    /\ pc = "reactive"
    /\ refresh_public_keys(resp)
    /\ reactive_at' = {now}
    /\ IF FetchKeys(resp).res.ok
       THEN /\ pc' = "record"
            /\ UNCHANGED <<token, result, call_phase>>
       ELSE Return(FetchKeys(resp).res)
    /\ UNCHANGED <<now, auto_refresh_interval, retry_rate_limit, last_retry, stale_at_call>>

\* mutant: a failed retry goes back for another refresh
Retry_Loop ==
    /\ pc = "record"
    /\ last_retry' = {now}
    /\ LET r == validate_token_impl(public_keys, token, now)
       IN  /\ events' = Append(events, [op |-> "attempt", res |-> r])
           /\ IF ~r.ok /\ Len(events) < 6
              THEN /\ pc' = "reactive"
                   /\ UNCHANGED <<token, result, call_phase>>
              ELSE Return(r)
    /\ UNCHANGED <<now, public_keys, auto_refresh_interval, retry_rate_limit,
                   last_refresh, reactive_at, stale_at_call, ever_refreshed, fetched>>

\* mutant: after the retry the first attempt's result is returned
Retry_FirstResult ==
    /\ pc = "record"
    /\ last_retry' = {now}
    /\ LET r == validate_token_impl(public_keys, token, now)
       IN  /\ events' = Append(events, [op |-> "attempt", res |-> r])
           /\ Return(events[CHOOSE i \in AttemptsOf(events) : TRUE].res)
    /\ UNCHANGED <<now, public_keys, auto_refresh_interval, retry_rate_limit,
                   last_refresh, reactive_at, stale_at_call, ever_refreshed, fetched>>

\* lines 147-148: record the retry and run the second attempt
Retry ==
    /\ pc = "record"
    /\ last_retry' = {now}
    /\ LET r == validate_token_impl(public_keys, token, now)
       IN  /\ events' = Append(events, [op |-> "attempt", res |-> r])
           /\ Return(r)
    /\ UNCHANGED <<now, public_keys, auto_refresh_interval, retry_rate_limit,
                   last_refresh, reactive_at, stale_at_call, ever_refreshed, fetched>>

Next ==
    \/ Tick
    \/ \E d \in Durations : set_auto_refresh_interval(d)
    \/ \E d \in Durations : set_retry_rate_limit(d)
    \/ \E tok \in Tokens : Call(tok)
    \/ \E resp \in Responses : ProactiveRefresh(resp)
    \/ FirstAttempt
    \/ \E resp \in Responses : ReactiveRefresh(resp)
    \/ Retry

Spec == Init /\ [][Next]_vars

\* ------------------------------------------------- reading the event log
Last(ev) == ev[Len(ev)]

RefreshesIn(ev) == {i \in DOMAIN ev : ev[i].op = "refresh"}

AttemptsIn(ev) == AttemptsOf(ev)

\* this step appended one event of kind op to the log
Logged(op) ==
    /\ Len(events') = Len(events) + 1
    /\ Last(events').op = op

\* this step made the first verification attempt of a call
LoggedFirstAttempt == Logged("attempt") /\ AttemptsIn(events) = {}

\* this step made the second verification attempt of a call
LoggedRetry == Logged("attempt") /\ AttemptsIn(events) # {}

\* the refresh policy as the specification words it
IsStale == ~ever_refreshed \/ \E t \in last_refresh : now - t > auto_refresh_interval

MayRetry == last_retry = {} \/ \E t \in last_retry : now - t > retry_rate_limit

OkRefresh == [op |-> "refresh", res |-> Refreshed]

\* ----------------------------------------------------------------- claims

\* C1: whenever a refresh fails (fetch error, unparsable document, or one key
\* that fails to construct), proactive or reactive, public_keys, last_refresh
\* and last_retry are exactly what they were before the refresh started.
C1_FailedRefreshLeavesCacheUntouched ==
    [][(Logged("refresh") /\ ~Last(events').res.ok)
         => /\ public_keys' = public_keys
            /\ last_refresh' = last_refresh
            /\ last_retry' = last_retry]_vars

\* a reactive refresh failed on a malformed key while keys were cached
C1_Witness ==
    /\ pc = "idle"
    /\ Len(events) = 3
    /\ events[2].op = "attempt"
    /\ Last(events) = [op |-> "refresh", res |-> Err("ParseError", "invalid key")]
    /\ public_keys # <<>>
    /\ \E t \in last_refresh : t < now

\* C2: at the start of every validate_token call a refresh is performed before
\* the first verification attempt iff no refresh has ever succeeded or
\* now - last_refresh > auto_refresh_interval; then it is performed exactly
\* once before the first attempt, and otherwise not at all.
C2_RefreshFirstIffStale ==
    [][/\ (pc = "idle" /\ pc' # "idle") => (stale_at_call' = IsStale /\ events' = <<>>)
       /\ LoggedFirstAttempt => events = (IF stale_at_call THEN <<OkRefresh>> ELSE <<>>)
       /\ (Logged("refresh") /\ AttemptsIn(events) = {}) => (stale_at_call /\ events = <<>>)
       /\ (pc # "idle" /\ pc' = "idle" /\ stale_at_call) => events'[1].op = "refresh"]_vars

\* keys cached by an earlier call (one that got as far as a reactive refresh)
\* had aged past the interval: one refresh, then the first attempt
C2_Witness ==
    /\ stale_at_call
    /\ Len(events) = 2
    /\ events[1] = OkRefresh
    /\ events[2].op = "attempt"
    /\ reactive_at # {}

\* C3 (as claimed): once a validate_token call performed a reactive refresh at
\* time t, a later call whose first attempt fails at t' with
\* t' - t <= retry_rate_limit performs no reactive refresh and returns its
\* first-attempt failure.
C3_ReactiveRefreshRateLimited ==
    [][(/\ LoggedFirstAttempt
        /\ ~Last(events').res.ok
        /\ \E t \in reactive_at : now - t <= retry_rate_limit)
         => (pc' = "idle" /\ result' = Last(events').res)]_vars

\* C4 (as claimed): a call on a token whose key id is not cached and is still
\* not in the key set the reactive refresh returns makes exactly one refresh
\* invocation and ends with the unknown-or-inactive-key error.
C4_ExactlyOneRefresh ==
    [][/\ (/\ pc = "reactive" /\ Logged("refresh") /\ Last(events').res.ok
           /\ \E k \in token.kid : k \notin DOMAIN public_keys /\ k \notin DOMAIN public_keys')
            => Cardinality(RefreshesIn(events')) = 1
       /\ (/\ pc = "record" /\ pc' # "record"
           /\ \E k \in token.kid : k \notin DOMAIN public_keys)
            => (pc' = "idle" /\ result' = KidNotFound)]_vars

\* C4 (amended): such a call makes exactly one reactive refresh invocation
\* (one refresh after the first attempt), preceded by the one proactive
\* refresh exactly when the keys were stale at the start of the call; it ends
\* with the unknown-or-inactive-key error after its second attempt and
\* never loops.
C4_ExactlyOneReactiveRefresh ==
    [][/\ (/\ pc = "reactive" /\ Logged("refresh") /\ Last(events').res.ok
           /\ \E k \in token.kid : k \notin DOMAIN public_keys /\ k \notin DOMAIN public_keys')
            => /\ Cardinality({i \in RefreshesIn(events') :
                                 \E j \in AttemptsIn(events') : j < i}) = 1
               /\ Cardinality(RefreshesIn(events')) = (IF stale_at_call THEN 2 ELSE 1)
       /\ (/\ pc = "record" /\ pc' # "record"
           /\ \E k \in token.kid : k \notin DOMAIN public_keys)
            => /\ pc' = "idle"
               /\ result' = KidNotFound
               /\ Cardinality(AttemptsIn(events')) = 2
               /\ Cardinality(RefreshesIn(events')) = Cardinality(RefreshesIn(events))]_vars

\* a call that began stale: proactive refresh, unknown kid, reactive refresh
\* returning an empty key set, unknown kid again
C4_Witness ==
    /\ pc = "idle"
    /\ stale_at_call
    /\ events = <<OkRefresh, [op |-> "attempt", res |-> KidNotFound],
                  OkRefresh, [op |-> "attempt", res |-> KidNotFound]>>
    /\ result = KidNotFound
    /\ public_keys = <<>>

\* C5 (as claimed): a reactive refresh does not reset the proactive staleness
\* clock: last_refresh is the same after it as before it.
C5_ReactiveRefreshKeepsLastRefresh ==
    [][(pc = "reactive" /\ Logged("refresh")) => last_refresh' = last_refresh]_vars

\* C6: a proactive refresh leaves last_retry unchanged, so a first-attempt
\* failure right after it is eligible for a reactive refresh whenever it was
\* eligible before.
C6_ProactiveRefreshKeepsLastRetry ==
    [][(pc = "proactive" /\ Logged("refresh"))
         => (last_retry' = last_retry /\ (MayRetry => MayRetry'))]_vars

\* a proactive refresh succeeded while a reactive refresh was on record and
\* the cooldown had elapsed
C6_Witness ==
    /\ pc = "first"
    /\ events = <<OkRefresh>>
    /\ last_retry # {}
    /\ last_refresh # last_retry
    /\ MayRetry

\* C7: when the refresh at the start of validate_token fails, the call returns
\* that refresh error at once: no verification attempt, no reactive refresh,
\* no use of the keys cached before.
C7_ProactiveFailureIsFatal ==
    (stale_at_call /\ events # <<>> /\ ~events[1].res.ok)
        => /\ pc = "idle"
           /\ Len(events) = 1
           /\ events[1].op = "refresh"
           /\ result = events[1].res
           /\ result.kind \in {"ConnectionError", "ParseError"}

\* the proactive refresh failed although keys from an earlier refresh are cached
C7_Witness ==
    /\ pc = "idle"
    /\ stale_at_call
    /\ events = <<[op |-> "refresh", res |-> Err("ConnectionError", "connect_error")]>>
    /\ result = Err("ConnectionError", "connect_error")
    /\ "k1" \in DOMAIN public_keys
    /\ is_valid(public_keys["k1"], now)

\* what a lookup of key id k answers in the current state
Lookup(k) == get_valid_key(public_keys, k, now)

\* C8: key lookup returns a key for a key id iff the cache holds an entry for
\* it whose not_before is absent or <= now; an entry whose not_before lies in
\* the future is not returned, and once time has passed not_before the same
\* cached entry is returned with no refresh in between.
C8_LookupHonoursNotBefore ==
    /\ [](\A k \in KeyIds :
            /\ Lookup(k) # {} <=>
                 /\ k \in DOMAIN public_keys
                 /\ \/ public_keys[k].not_before = {}
                    \/ \E nbf \in public_keys[k].not_before : nbf <= now
            /\ Lookup(k) # {} => Lookup(k) = {public_keys[k].key})
    /\ [][\A k \in KeyIds :
            (/\ k \in DOMAIN public_keys
             /\ \E nbf \in public_keys[k].not_before : now < nbf /\ nbf <= now'
             /\ public_keys' = public_keys)
              => (Lookup(k) = {} /\ Lookup(k)' = {public_keys[k].key})]_vars

\* k1 was cached before its not_before, and a later call that found the keys
\* fresh verified a k1 token against that same entry without any refresh
C8_Witness ==
    /\ pc = "idle"
    /\ DOMAIN public_keys = {"k1"}
    /\ public_keys["k1"].not_before = {NbfTime}
    /\ \E t \in last_refresh : t < NbfTime
    /\ now >= NbfTime
    /\ ~stale_at_call
    /\ Len(events) = 1
    /\ events[1].op = "attempt"
    /\ result.ok

\* C9: validate_token returns the outcome of the verification attempt that ran
\* last: the first attempt's when it succeeded or failed inside the cooldown,
\* the retry's when a retry ran, whatever the retry's outcome; there is never
\* a third attempt.
C9_ResultIsLastAttempt ==
    /\ [](Cardinality(AttemptsIn(events)) <= 2)
    /\ [][/\ (LoggedFirstAttempt /\ (Last(events').res.ok \/ ~MayRetry))
               => (pc' = "idle" /\ result' = Last(events').res)
          /\ LoggedRetry => (pc' = "idle" /\ result' = Last(events').res)]_vars

\* the retry failed for another reason than the first attempt, and its error
\* is what the call returned
C9_Witness ==
    /\ pc = "idle"
    /\ Len(events) = 3
    /\ events[1] = [op |-> "attempt", res |-> KidNotFound]
    /\ events[2] = OkRefresh
    /\ events[3] = [op |-> "attempt", res |-> Err("ParseError", "invalid signature")]
    /\ result = Err("ParseError", "invalid signature")

\* C10: when the token's key id is not cached, the retry is eligible and the
\* reactive fetch returns a key set holding that key id (active, matching the
\* token's signature, issuer and audience), validate_token returns the claims
\* after exactly one reactive refresh.
C10_RotationRecovery ==
    [][/\ (/\ LoggedFirstAttempt /\ MayRetry
           /\ \E k \in token.kid : k \notin DOMAIN public_keys)
            => (pc' = "reactive" /\ Last(events').res = KidNotFound)
       /\ (/\ pc = "record" /\ pc' # "record"
           /\ \E k \in token.kid :
                /\ k \in DOMAIN public_keys
                /\ \A nbf \in public_keys[k].not_before : nbf <= now
                /\ public_keys[k].key = token.signer
           /\ token.iss = issuer
           /\ token.aud = audience)
            => /\ pc' = "idle"
               /\ result'.ok
               /\ result'.claims = {<<token.iss, token.aud>>}
               /\ Cardinality({i \in RefreshesIn(events') :
                                 \E j \in AttemptsIn(events') : j < i}) = 1]_vars

\* a k2 token met a cache without k2; the reactive refresh brought k2 and the
\* retry returned the claims
C10_Witness ==
    /\ pc = "idle"
    /\ events = <<[op |-> "attempt", res |-> KidNotFound], OkRefresh,
                  [op |-> "attempt", res |-> result]>>
    /\ result.ok
    /\ result.claims = {<<issuer, audience>>}
    /\ DOMAIN public_keys = {"k2"}

\* C12: set_auto_refresh_interval and set_retry_rate_limit each change only
\* their own tunable (key entries, last_refresh, last_retry and the other
\* tunable stay as they were), and the next validate_token call decides
\* staleness and retry eligibility with the value then set, against the
\* timestamps already recorded.
C12_SettersChangeOnlyTheirTunable ==
    [][/\ events' = <<[op |-> "set_auto_refresh_interval", res |-> Unit]>>
            => UNCHANGED <<public_keys, last_refresh, last_retry, retry_rate_limit>>
       /\ events' = <<[op |-> "set_retry_rate_limit", res |-> Unit]>>
            => UNCHANGED <<public_keys, last_refresh, last_retry, auto_refresh_interval>>
       /\ (pc = "idle" /\ pc' # "idle")
            => /\ UNCHANGED client
               /\ (pc' = "proactive") <=>
                    (last_refresh = {} \/ \E t \in last_refresh : now - t > auto_refresh_interval)
       /\ (LoggedFirstAttempt /\ ~Last(events').res.ok)
            => /\ UNCHANGED client
               /\ (pc' = "reactive") <=>
                    (last_retry = {} \/ \E t \in last_retry : now - t > retry_rate_limit)]_vars

\* a call found the keys stale only because the interval had been lowered by
\* the setter; the retry cooldown still has its default
C12_Witness ==
    /\ pc = "proactive"
    /\ auto_refresh_interval < DefaultAutoRefreshInterval
    /\ retry_rate_limit = DefaultRetryRateLimit
    /\ \E t \in last_refresh : /\ now - t > auto_refresh_interval
                               /\ now - t <= DefaultAutoRefreshInterval

\* C13: a newly constructed client has an empty key cache, no last_refresh,
\* no last_retry, a refresh interval of 1 hour and a retry cooldown of
\* 5 minutes; so its first validate_token call always refreshes before
\* attempting verification, and its first failed attempt is always eligible
\* for a reactive refresh.
C13_NewClient ==
    /\ public_keys = <<>>
    /\ last_refresh = {}
    /\ last_retry = {}
    /\ auto_refresh_interval = 60
    /\ retry_rate_limit = 5
    /\ [][/\ (call_phase = "new" /\ call_phase' # "new") => pc' = "proactive"
          /\ (call_phase = "first" /\ LoggedFirstAttempt)
               => /\ events = <<OkRefresh>>
                  /\ ~Last(events').res.ok => pc' = "reactive"]_vars

\* the first call of a client refreshed, failed its first attempt and is about
\* to refresh reactively
C13_Witness ==
    /\ call_phase = "first"
    /\ pc = "reactive"
    /\ Len(events) = 2
    /\ events[1] = OkRefresh
    /\ events[2].op = "attempt"

\* C14: in every reachable state the cache entries are exactly the key set of
\* the most recent successful fetch (empty if none succeeded): entries are
\* replaced wholesale, never merged, so a key id cached earlier but absent
\* from the latest successful fetch is no longer returned by lookup.
C14_EntriesAreLatestFetch ==
    /\ ~ever_refreshed => public_keys = <<>>
    /\ DOMAIN public_keys = {r.key_id : r \in fetched}
    /\ \A r \in fetched :
         public_keys[r.key_id] = [key |-> r.material, not_before |-> r.not_before]
    /\ \A k \in KeyIds \ {r.key_id : r \in fetched} : Lookup(k) = {}

\* a k1 token failed on its signature against the cached k1 key, the reactive
\* refresh returned a key set without k1, and the retry no longer found k1
C14_Witness ==
    /\ pc = "idle"
    /\ events = <<[op |-> "attempt", res |-> Err("ParseError", "invalid signature")],
                  OkRefresh, [op |-> "attempt", res |-> KidNotFound]>>
    /\ "k1" \notin DOMAIN public_keys
    /\ "k2" \in DOMAIN public_keys

\* C15: a first attempt that fails, for whatever cause, while the cooldown has
\* elapsed leads to a reactive refresh; that refresh is the single further
\* refresh of the call and is followed by the recording of the reactive-refresh
\* timestamp and by exactly one repeated attempt with the same token, which
\* for a token without a key id fails again with the missing-key-id error.
C15_FailureTriggersRefreshAndRetry ==
    [][/\ (LoggedFirstAttempt /\ ~Last(events').res.ok /\ MayRetry) => pc' = "reactive"
       /\ (pc = "reactive" /\ Logged("refresh"))
            => /\ pc' = "record"
               /\ token' = token
       /\ (pc = "record" /\ pc' # "record")
            => /\ LoggedRetry
               /\ last_retry' = {now}
               /\ Cardinality(AttemptsIn(events')) = 2
               /\ Last(events').res = validate_token_impl(public_keys, token, now)
               /\ (token.decodable /\ token.kid = {}) => Last(events').res = MissingKid
               /\ pc' = "idle"]_vars

\* the call has returned out of its reactive refresh: the log ends with a
\* failed attempt followed by a failed refresh
ReactiveRefreshFailed ==
    /\ pc = "idle"
    /\ Len(events) >= 2
    /\ Last(events).op = "refresh" /\ ~Last(events).res.ok
    /\ events[Len(events) - 1].op = "attempt"

\* C16 (as stated): when the refresh made for the reactive retry fails,
\* validate_token returns the failure of the first attempt.
C16_ReportsFirstAttemptFailure ==
    ReactiveRefreshFailed => result = events[Len(events) - 1].res

\* C16 (amended): when the refresh made for the reactive retry fails,
\* validate_token returns that fetch error (ConnectionError or ParseError of
\* the key source) and makes no second attempt; the first attempt's failure
\* is not reported.
C16_ReportsFetchError ==
    ReactiveRefreshFailed
        => /\ result = Last(events).res
           /\ result \in {FetchKeys(resp).res : resp \in Responses}
           /\ result # events[Len(events) - 1].res
           /\ Cardinality(AttemptsIn(events)) = 1

\* keys were fresh, the k1 token was not found, the reactive fetch could not
\* connect, and the caller got the connection error
C16_Witness ==
    /\ pc = "idle"
    /\ events = <<[op |-> "attempt", res |-> KidNotFound],
                  [op |-> "refresh", res |-> Err("ConnectionError", "connect_error")]>>
    /\ result = Err("ConnectionError", "connect_error")

\* the cache holds, under the key id of the token being validated, an entry
\* that is active now
KeyResolved ==
    \E k \in token.kid :
        /\ k \in DOMAIN public_keys
        /\ \A nbf \in public_keys[k].not_before : nbf <= now

\* C17: every verification attempt checks in a fixed order and stops at the
\* first failure: a decodable token without a key id gets the missing-key-id
\* error whatever the cache holds; a key id with no cached entry, or with an
\* entry whose not_before is in the future, gets the unknown-or-inactive-key
\* error; any other outcome is the outcome of verifying the signature with the
\* key cached under the token's key id, active now, against the client's
\* issuer and audience; and validate_token returns claims only as the result
\* of such a successful verification.
C17_ChecksRunInOrder ==
    [][/\ Logged("attempt")
            => LET r == Last(events').res
               IN  /\ pc \in {"first", "record"}
                   /\ ~token.decodable => r = Err("ParseError", "invalid token")
                   /\ (token.decodable /\ token.kid = {}) => r = MissingKid
                   /\ (token.decodable /\ token.kid # {} /\ ~KeyResolved) => r = KidNotFound
                   /\ r \notin {Err("ParseError", "invalid token"), MissingKid, KidNotFound}
                        => /\ token.decodable /\ KeyResolved
                           /\ \E k \in token.kid :
                                r = verify_token(public_keys[k].key, token, {issuer}, {audience})
                   /\ r.ok => /\ \E k \in token.kid : token.signer = public_keys[k].key
                              /\ token.iss = issuer /\ token.aud = audience
                              /\ r.claims = {<<issuer, audience>>}
       /\ result'.ok => result' = result \/ (Logged("attempt") /\ result' = Last(events').res)
      ]_vars

\* the k1 entry is cached but not active yet: the attempt stopped at the
\* lookup with the unknown-or-inactive-key error
C17_Witness ==
    /\ pc = "reactive"
    /\ token.kid = {"k1"} /\ token.signer = "A"
    /\ "k1" \in DOMAIN public_keys
    /\ \E nbf \in public_keys["k1"].not_before : nbf > now
    /\ Last(events) = [op |-> "attempt", res |-> KidNotFound]

C19_RefreshPrecedesRetry ==
    /\ last_refresh = {} => (public_keys = <<>> /\ last_retry = {})
    /\ (DOMAIN public_keys # {} \/ last_retry # {}) => last_refresh # {}
    /\ Cardinality(AttemptsIn(events)) = 2
         => /\ last_retry # {}
            /\ \A r \in last_retry : \E f \in last_refresh : f <= r

\* the retry was recorded one tick after the reactive refresh it follows
C19_Witness ==
    /\ pc = "idle"
    /\ Cardinality(AttemptsIn(events)) = 2
    /\ DOMAIN public_keys # {}
    /\ \E r \in last_retry : \E f \in last_refresh : f < r

\* C20: entering validate_token with keys that are not stale, and making the
\* first attempt, change nothing of the client (key entries, last_refresh,
\* last_retry, both tunables); a first attempt that succeeds, or that fails
\* while the cooldown has not elapsed, ends the call with its result, having
\* fetched only the proactive refresh of a stale start, so none at all when
\* the keys were not stale.
C20_NoRefreshNoChange ==
    [][/\ (pc = "idle" /\ pc' = "first")
            => /\ UNCHANGED client
               /\ ~stale_at_call' /\ events' = <<>>
       /\ (pc = "first" /\ pc' # "first")
            => /\ UNCHANGED client
               /\ LoggedFirstAttempt
               /\ (Last(events').res.ok \/ ~MayRetry)
                    => /\ pc' = "idle"
                       /\ result' = Last(events').res
                       /\ RefreshesIn(events') = IF stale_at_call THEN {1} ELSE {}
                       /\ ~stale_at_call => Len(events') = 1]_vars

\* keys not stale, the first attempt succeeded: the call consisted of the
\* attempt alone
C20_Witness ==
    /\ pc = "idle"
    /\ ~stale_at_call
    /\ result.ok
    /\ events = <<[op |-> "attempt", res |-> result]>>
    /\ last_refresh # {} /\ last_retry # {}

====
